---- MODULE Spec2Model ----
(***************************************************************************)
(* Import resolution of the evaluator (crates/typst-eval/src/import.rs).   *)
(*                                                                         *)
(* The specifications of the module:                                       *)
(*   SpecStmt  one `import` / `include` statement evaluated in a file      *)
(*             whose importable files import nothing themselves            *)
(*             (ModuleImport::eval, ModuleInclude::eval, import,           *)
(*             import_package, resolve_package);                           *)
(*   Spec      one evaluation chain over an arbitrary import graph         *)
(*             (import_file with its route, the recursive eval and the     *)
(*             evaluation cache);                                          *)
(*   FairSpec  Spec, with the enabled step of the chain always taken;      *)
(*   SpecPar   two evaluation chains over one World and one cache.         *)
(***************************************************************************)
EXTENDS Integers, Sequences, FiniteSets, TLC

VARIABLES
    stmt,      \* the statement under evaluation (its AST and the value of its source)
    top,       \* vm.scopes.top of the importing file
    before,    \* vm.scopes.top when the statement started
    sink,      \* engine.sink: the warnings delivered so far
    loads,     \* the requests made to the World (file and source), in order
    result,    \* what the statement returned
    pc,        \* position of the statement evaluation
    files,     \* the World's sources: file id -> the texts it imports, in order
    stack,     \* the active evaluations of the chain, innermost last
    cache,     \* the evaluation cache
    execs,     \* how often each file body was executed in this run
    outcome    \* what the evaluation of the root file returned

vars == <<stmt, top, before, sink, loads, result, pc, files, stack, cache, execs, outcome>>

stmtVars == <<stmt, top, before, result, pc>>
chainVars == <<files, stack, cache, execs, outcome>>

(***************************************************************************)
(* Bounds                                                                  *)
(***************************************************************************)
MaxItems == 2

MaxImports == 3

(***************************************************************************)
(* Spans, diagnostics                                                      *)
(***************************************************************************)
Span(kind, i, j) == [kind |-> kind, i |-> i, j |-> j]

source_span == Span("source", 0, 0)

NewNameSpan == Span("new_name", 0, 0)

ComponentSpan(i, j) == Span("component", i, j)

ItemNewNameSpan(i) == Span("item_new_name", i, 0)

DefSpan(d, n) == Span("definition", d, n)

BodySpan(stem) == [kind |-> stem, i |-> 0, j |-> 0]

Error(msg, span, found) == [msg |-> msg, span |-> span, found |-> found, trace |-> <<>>]

Warning(msg, span) == [msg |-> msg, span |-> span]

(***************************************************************************)
(* Values                                                                  *)
(***************************************************************************)
NoText == <<>>

Val(k, n, text, has, name, scope) ==
    [k |-> k, n |-> n, text |-> text, has |-> has, name |-> name, scope |-> scope]

IntV(n) == Val("int", n, NoText, FALSE, "", <<>>)

NoneV == Val("none", 0, NoText, FALSE, "", <<>>)

StrV(text) == Val("str", 0, text, FALSE, "", <<>>)

ClosureV == Val("func", 0, NoText, FALSE, "closure", <<>>)

NativeFuncV(name, scope) == Val("func", 0, NoText, TRUE, name, scope)

TypeV(name, scope) == Val("type", 0, NoText, TRUE, name, scope)

ModuleV(name, scope) == Val("module", 0, NoText, TRUE, name, scope)

Ty(v) == IF v.k = "func" THEN "function" ELSE v.k

Binding(value, span) == [value |-> value, span |-> span]

Entry(name, binding) == [name |-> name, binding |-> binding]

(***************************************************************************)
(* Scope                                                                   *)
(***************************************************************************)
ScopeNames(scope) == {scope[i].name : i \in 1..Len(scope)}

ScopeIndex(scope, name) ==
    IF name \in ScopeNames(scope)
    THEN CHOOSE i \in 1..Len(scope) : scope[i].name = name
    ELSE 0

ScopeGet(scope, name) == scope[ScopeIndex(scope, name)].binding

ScopeBind(scope, name, binding) ==
    IF ScopeIndex(scope, name) = 0
    THEN Append(scope, Entry(name, binding))
    ELSE [scope EXCEPT ![ScopeIndex(scope, name)] = Entry(name, binding)]

FuncScopeIsNone(v) == ~v.has

HasScope(v) ==
    CASE v.k = "func" -> ~FuncScopeIsNone(v)
      [] v.k = "module" -> TRUE
      [] v.k = "type" -> TRUE
      [] OTHER -> FALSE

ValueScope(v) == v.scope

Define(scope, name, value, span) == ScopeBind(scope, name, Binding(value, span))

(***************************************************************************)
(* The World: file identities, sources, package manifests                  *)
(***************************************************************************)
NoPackage == <<>>

FileId(pkg, vpath) == [pkg |-> pkg, vpath |-> vpath]

Path(stem) == <<stem, "typ">>

Local(stem) == FileId(NoPackage, Path(stem))

PackageText(namespace, name, version) == <<"@", namespace, name, version>>

Versions == {"0.1.0", "0.2.0"}

Idents == {"a", "b", "c", "lib", "m", "x", "z", "zz", "sub", "f", "g", "T",
           "main", "example", "renamed", "aged"}

\* The stems of the local files that exist.
LocalStems == {"main", "a", "b", "c", "my-mod", "bad"}

\* The packages whose entrypoint exists.
EntryPackages == {"example", "renamed", "aged"}

\* engine.world.source(id)
SourceExists(id) ==
    \/ id.pkg = NoPackage /\ id.vpath \in {Path(s) : s \in LocalStems}
    \/ id.pkg # NoPackage /\ id.pkg[2] \in EntryPackages /\ id.vpath = Path("lib")

\* engine.world.file(manifest_id), bytes.as_str() and toml::from_str, by package name
ManifestFile(spec) ==
    [ found   |-> spec[2] # "nofile",
      utf8    |-> spec[2] # "binary",
      parses  |-> spec[2] # "broken",
      name    |-> IF spec[2] = "renamed" THEN "other" ELSE spec[2],
      version |-> IF spec[2] = "aged" THEN "0.2.0" ELSE "0.1.0",
      entrypoint |-> IF spec[2] = "noentry" THEN Path("nolib") ELSE Path("lib") ]

ManifestValidate(manifest, spec) ==
    /\ manifest.name = spec[2]
    /\ manifest.version = spec[3]

ParsePackageSpec(from) ==
    IF Len(from) = 4 /\ from[1] = "@" /\ from[4] \in Versions
    THEN [ok |-> TRUE, spec |-> <<from[2], from[3], from[4]>>]
    ELSE [ok |-> FALSE, spec |-> NoPackage]

ResolvePath(current, from) == FileId(current.pkg, from)

\* The scope a file's own body defines, and the module its evaluation returns.
SubScope ==
    << Entry("x", Binding(IntV(3), DefSpan(2, 1))),
       Entry("a", Binding(IntV(4), DefSpan(2, 2))),
       Entry("deep", Binding(ModuleV("deep", <<Entry("z", Binding(IntV(5), DefSpan(3, 1)))>>),
                             DefSpan(2, 3))) >>

BodyScope(id) ==
    CASE id.vpath = Path("a") ->
            << Entry("a", Binding(IntV(1), DefSpan(1, 1))),
               Entry("f", Binding(ClosureV, DefSpan(1, 2))),
               Entry("sub", Binding(ModuleV("sub", SubScope), DefSpan(1, 3))),
               Entry("g", Binding(NativeFuncV("g", <<Entry("x", Binding(IntV(6), DefSpan(4, 1)))>>),
                                  DefSpan(1, 4))),
               Entry("T", Binding(TypeV("T", <<Entry("x", Binding(ClosureV, DefSpan(5, 1)))>>),
                                  DefSpan(1, 5))) >>
      [] id.vpath = Path("lib") ->
            << Entry("x", Binding(IntV(7), DefSpan(6, 1))) >>
      [] OTHER ->
            << Entry("a", Binding(IntV(8), DefSpan(7, 1))) >>

Stem(id) == id.vpath[1]

FileModule(id) == ModuleV(Stem(id), BodyScope(id))

WithName(module, name) == [module EXCEPT !.name = name]

\* The warning a file's own body emits each time it is executed.
BodyWarning(id) == Warning("body warning", BodySpan(Stem(id)))

\* Whether the file's own body fails when executed.
BodyFails(id) == Stem(id) = "bad"

BodyError(id) == Error("body error", BodySpan(Stem(id)), "")

(***************************************************************************)
(* import, import_package, resolve_package, the head of import_file        *)
(***************************************************************************)
Failed(errors, reqs) ==
    [ok |-> FALSE, errors |-> errors, loads |-> reqs, id |-> Local("none"), name |-> "",
     package |-> FALSE]

ManifestId(spec) == FileId(spec, <<"typst", "toml">>)

\* Mutant of resolve_package: the manifest is not validated against the specifier.
resolve_package_unvalidated(spec, span) ==
    IF ManifestFile(spec).found /\ ManifestFile(spec).utf8 /\ ManifestFile(spec).parses
    THEN [ok |-> TRUE, errors |-> <<>>, loads |-> <<ManifestId(spec)>>,
          id |-> FileId(spec, ManifestFile(spec).entrypoint),
          name |-> ManifestFile(spec).name, package |-> TRUE]
    ELSE Failed(<<Error("package manifest is malformed", span, "")>>, <<ManifestId(spec)>>)

resolve_package(spec, span) ==
    LET manifest_id == ManifestId(spec)
        manifest == ManifestFile(spec)
    IN  IF ~manifest.found
        THEN Failed(<<Error("file not found", span, "")>>, <<manifest_id>>)
        ELSE IF ~manifest.utf8
        THEN Failed(<<Error("file is not valid utf-8", span, "")>>, <<manifest_id>>)
        ELSE IF ~manifest.parses
        THEN Failed(<<Error("package manifest is malformed", span, "")>>, <<manifest_id>>)
        ELSE IF ~ManifestValidate(manifest, spec)
        THEN Failed(<<Error("package manifest validation", span, "")>>, <<manifest_id>>)
        ELSE [ok |-> TRUE, errors |-> <<>>, loads |-> <<manifest_id>>,
              id |-> FileId(spec, manifest.entrypoint), name |-> manifest.name,
              package |-> TRUE]

\* import and import_package up to their call of import_file: the file to import.
import_target(current, from, span) ==
    IF Len(from) > 0 /\ from[1] = "@"
    THEN LET parsed == ParsePackageSpec(from)
         IN  IF ~parsed.ok
             THEN Failed(<<Error("invalid package spec", span, "")>>, <<>>)
             ELSE resolve_package(parsed.spec, span)
    ELSE [ok |-> TRUE, errors |-> <<>>, loads |-> <<>>,
          id |-> ResolvePath(current, from), name |-> "", package |-> FALSE]

\* Mutant of import_file_guard: the route is not consulted.
import_file_guard_unguarded(id, span, route) ==
    IF ~SourceExists(id)
    THEN [ok |-> FALSE, errors |-> <<Error("file not found", span, "")>>, loads |-> <<id>>]
    ELSE [ok |-> TRUE, errors |-> <<>>, loads |-> <<id>>]

\* Mutant of import_file_guard: only the importing file itself is refused.
import_file_guard_direct_only(id, span, route) ==
    IF ~SourceExists(id)
    THEN [ok |-> FALSE, errors |-> <<Error("file not found", span, "")>>, loads |-> <<id>>]
    ELSE IF route # <<>> /\ route[Len(route)] = id
    THEN [ok |-> FALSE, errors |-> <<Error("cyclic import", span, "")>>, loads |-> <<id>>]
    ELSE [ok |-> TRUE, errors |-> <<>>, loads |-> <<id>>]

\* Mutant of import_file_guard: only the root of the route is refused.
import_file_guard_root_only(id, span, route) ==
    IF ~SourceExists(id)
    THEN [ok |-> FALSE, errors |-> <<Error("file not found", span, "")>>, loads |-> <<id>>]
    ELSE IF route # <<>> /\ route[1] = id
    THEN [ok |-> FALSE, errors |-> <<Error("cyclic import", span, "")>>, loads |-> <<id>>]
    ELSE [ok |-> TRUE, errors |-> <<>>, loads |-> <<id>>]

\* import_file before it evaluates: the source is loaded, then the route is checked.
import_file_guard(id, span, route) ==
    IF ~SourceExists(id)
    THEN [ok |-> FALSE, errors |-> <<Error("file not found", span, "")>>, loads |-> <<id>>]
    ELSE IF \E k \in 1..Len(route) : route[k] = id
    THEN [ok |-> FALSE, errors |-> <<Error("cyclic import", span, "")>>, loads |-> <<id>>]
    ELSE [ok |-> TRUE, errors |-> <<>>, loads |-> <<id>>]

\* Mutant of Trace: an error that carries a tracepoint gets no further one.
TraceInnermostOnly(errors, span) ==
    [k \in 1..Len(errors) |->
        IF errors[k].trace = <<>> THEN [errors[k] EXCEPT !.trace = Append(@, span)] ELSE errors[k]]

\* .trace(engine.world, point, span): every error gets the import site's tracepoint.
Trace(errors, span) ==
    [k \in 1..Len(errors) |-> [errors[k] EXCEPT !.trace = Append(@, span)]]

\* Mutant of NameModule: a package's module keeps the name of its entrypoint file.
NameModuleOfFile(target, module) == module

\* import_package's map(|module| module.with_name(name))
NameModule(target, module) ==
    IF target.package THEN WithName(module, target.name) ELSE module

(***************************************************************************)
(* The statement's syntax (typst_syntax::ast)                              *)
(***************************************************************************)
NoName == ""

Item(path, renamed, new_name) == [path |-> path, renamed |-> renamed, new_name |-> new_name]

OriginalName(item) == item.path[Len(item.path)]

BoundName(item) == IF item.renamed THEN item.new_name ELSE OriginalName(item)

NoImports == [kind |-> "none", items |-> <<>>]

Wildcard == [kind |-> "wildcard", items |-> <<>>]

Items(items) == [kind |-> "items", items |-> items]

\* ast::ModuleImport::bare_name
bare_name(st) ==
    CASE st.expr = "Ident" -> [ok |-> TRUE, name |-> st.ident, err |-> ""]
      [] st.expr = "FieldAccess" -> [ok |-> TRUE, name |-> st.ident, err |-> ""]
      [] st.expr = "Str" ->
            LET string == st.value.text
            IN  IF Len(string) > 0 /\ string[1] = "@"
                THEN IF ~ParsePackageSpec(string).ok
                     THEN [ok |-> FALSE, name |-> "", err |-> "PackageInvalid"]
                     ELSE IF ParsePackageSpec(string).spec[2] \in Idents
                     THEN [ok |-> TRUE, name |-> ParsePackageSpec(string).spec[2], err |-> ""]
                     ELSE [ok |-> FALSE, name |-> "", err |-> "PathInvalid"]
                ELSE IF string[1] \in Idents
                     THEN [ok |-> TRUE, name |-> string[1], err |-> ""]
                     ELSE [ok |-> FALSE, name |-> "", err |-> "PathInvalid"]
      [] OTHER -> [ok |-> FALSE, name |-> "", err |-> "Dynamic"]

(***************************************************************************)
(* import of a text, in a World whose files import nothing themselves      *)
(***************************************************************************)
\* eval of a file without imports: its body runs, warns, and fails or returns the module.
eval_body(id) ==
    IF BodyFails(id)
    THEN [ok |-> FALSE, errors |-> <<BodyError(id)>>, module |-> NoneV,
          warnings |-> <<BodyWarning(id)>>]
    ELSE [ok |-> TRUE, errors |-> <<>>, module |-> FileModule(id),
          warnings |-> <<BodyWarning(id)>>]

import_file(id, span, route) ==
    LET guard == import_file_guard(id, span, route)
        run == eval_body(id)
    IN  IF ~guard.ok
        THEN [ok |-> FALSE, errors |-> guard.errors, module |-> NoneV,
              loads |-> guard.loads, warnings |-> <<>>]
        ELSE [ok |-> run.ok, errors |-> Trace(run.errors, span), module |-> run.module,
              loads |-> guard.loads, warnings |-> run.warnings]

import(current, route, from, span) ==
    LET target == import_target(current, from, span)
        file == import_file(target.id, span, route)
    IN  IF ~target.ok
        THEN [ok |-> FALSE, errors |-> target.errors, module |-> NoneV,
              loads |-> target.loads, warnings |-> <<>>]
        ELSE [ok |-> file.ok, errors |-> file.errors,
              module |-> IF file.ok THEN NameModule(target, file.module) ELSE NoneV,
              loads |-> target.loads \o file.loads, warnings |-> file.warnings]

(***************************************************************************)
(* ModuleImport::eval                                                      *)
(***************************************************************************)
MainId == Local("main")

MainRoute == <<MainId>>

Vm(scope, warnings, reqs) == [top |-> scope, sink |-> warnings, loads |-> reqs]

Returned(vm, errors) ==
    [top |-> vm.top, sink |-> vm.sink, loads |-> vm.loads,
     ok |-> errors = <<>>, errors |-> errors, value |-> NoneV]

\* Mutant of NestedError: every scopeless component is reported as a wrong type.
NestedErrorOneMessage(value, span) ==
    Error("expected module, function, or type", span, Ty(value))

\* lines 115-132: the error of an intermediate component that has no scope
NestedError(value, span) ==
    IF value.k = "func" /\ FuncScopeIsNone(value)
    THEN Error("cannot import from user-defined functions", span, "")
    ELSE IF value.k \notin {"func", "module", "type"}
    THEN Error("expected module, function, or type", span, Ty(value))
    ELSE Error("panic: unexpected nested import failure", span, "")

\* Mutant of ItemWarnings: every renamed item warns.
ItemWarningsAnyRename(item, i) ==
    IF item.renamed
    THEN <<Warning("unnecessary import rename to same name", ItemNewNameSpan(i))>>
    ELSE <<>>

\* lines 144-153: the warning of a renamed item
ItemWarnings(item, i) ==
    IF item.renamed /\ OriginalName(item) = item.new_name
    THEN <<Warning("unnecessary import rename to same name", ItemNewNameSpan(i))>>
    ELSE <<>>

\* lines 104-157: the walk along the path of item i, from component j in `scope`.
\* acc = [vm, errors]
RECURSIVE WalkPath(_, _, _, _, _)
WalkPath(acc, item, i, j, scope) ==
    LET component == item.path[j]
    IN  IF ScopeIndex(scope, component) = 0
        THEN [acc EXCEPT !.errors = Append(@, Error("unresolved import", ComponentSpan(i, j), ""))]
        ELSE LET binding == ScopeGet(scope, component)
             IN  IF j < Len(item.path)
                 THEN IF ~HasScope(binding.value)
                      THEN [acc EXCEPT !.errors =
                                Append(@, NestedError(binding.value, ComponentSpan(i, j)))]
                      ELSE WalkPath(acc, item, i, j + 1, ValueScope(binding.value))
                 ELSE [acc EXCEPT !.vm.sink = @ \o ItemWarnings(item, i),
                                  !.vm.top = ScopeBind(@, BoundName(item), binding)]

\* Mutant of ImportItems: the loop stops at the first item that failed.
RECURSIVE ImportItemsShortCircuit(_, _, _, _)
ImportItemsShortCircuit(acc, items, i, scope) ==
    IF i > Len(items) \/ acc.errors # <<>>
    THEN acc
    ELSE ImportItemsShortCircuit(WalkPath(acc, items[i], i, 1, scope), items, i + 1, scope)

\* lines 99-158: the loop over the items
RECURSIVE ImportItems(_, _, _, _)
ImportItems(acc, items, i, scope) ==
    IF i > Len(items)
    THEN acc
    ELSE ImportItems(WalkPath(acc, items[i], i, 1, scope), items, i + 1, scope)

\* Mutant of ImportAll: a name the importer already binds is left alone.
RECURSIVE ImportAllKeepExisting(_, _, _)
ImportAllKeepExisting(dest, scope, i) ==
    IF i > Len(scope)
    THEN dest
    ELSE ImportAllKeepExisting(
            IF ScopeIndex(dest, scope[i].name) = 0
            THEN ScopeBind(dest, scope[i].name, scope[i].binding)
            ELSE dest,
            scope, i + 1)

\* lines 93-97: the wildcard loop
RECURSIVE ImportAll(_, _, _)
ImportAll(dest, scope, i) ==
    IF i > Len(scope)
    THEN dest
    ELSE ImportAll(ScopeBind(dest, scope[i].name, scope[i].binding), scope, i + 1)

\* Mutant of BareImport: the guard against dynamic text sources is dropped.
BareImportNoDynamicGuard(st, vm, source, is_str) ==
    IF st.new_name # NoName
    THEN Returned(vm, <<>>)
    ELSE IF bare_name(st).ok
    THEN Returned([vm EXCEPT !.top = ScopeBind(@, bare_name(st).name,
                                               Binding(source, source_span))], <<>>)
    ELSE Returned(vm, <<Error("dynamic import requires an explicit name", source_span, "")>>)

\* Mutant of BareImport: an identifier source is warned about and not bound.
BareImportNoEffect(st, vm, source, is_str) ==
    IF st.new_name # NoName
    THEN Returned(vm, <<>>)
    ELSE LET name == bare_name(st)
         IN  IF name.ok /\ (~is_str \/ st.expr = "Str")
             THEN IF st.expr = "Ident"
                  THEN Returned([vm EXCEPT !.sink = Append(@, Warning("this import has no effect",
                                                                      source_span))], <<>>)
                  ELSE Returned([vm EXCEPT !.top = ScopeBind(@, name.name,
                                                             Binding(source, source_span))], <<>>)
             ELSE IF name.ok \/ name.err = "Dynamic"
             THEN Returned(vm, <<Error("dynamic import requires an explicit name", source_span, "")>>)
             ELSE IF name.err = "PathInvalid"
             THEN Returned(vm, <<Error("module name would not be a valid identifier", source_span, "")>>)
             ELSE Returned(vm, <<Error("panic: unreachable", source_span, "")>>)

\* lines 64-92: no item list
BareImport(st, vm, source, is_str) ==
    IF st.new_name # NoName
    THEN Returned(vm, <<>>)
    ELSE LET name == bare_name(st)
         IN  IF name.ok /\ (~is_str \/ st.expr = "Str")
             THEN Returned(
                    [vm EXCEPT
                       !.sink = IF st.expr = "Ident"
                                THEN Append(@, Warning("this import has no effect", source_span))
                                ELSE @,
                       !.top = ScopeBind(@, name.name, Binding(source, source_span))],
                    <<>>)
             ELSE IF name.ok \/ name.err = "Dynamic"
             THEN Returned(vm, <<Error("dynamic import requires an explicit name", source_span, "")>>)
             ELSE IF name.err = "PathInvalid"
             THEN Returned(vm, <<Error("module name would not be a valid identifier", source_span, "")>>)
             ELSE Returned(vm, <<Error("panic: unreachable", source_span, "")>>)

\* Mutant of Rename: the name is bound only when no item list follows.
RenameBareOnly(st, vm, source) ==
    IF st.new_name = NoName \/ st.imports.kind # "none"
    THEN vm
    ELSE [vm EXCEPT
            !.sink = IF st.expr = "Ident" /\ st.ident = st.new_name
                     THEN Append(@, Warning("unnecessary import rename to same name", NewNameSpan))
                     ELSE @,
            !.top = Define(@, st.new_name, source, NewNameSpan)]

\* lines 46-61: the rename
Rename(st, vm, source) ==
    IF st.new_name = NoName
    THEN vm
    ELSE [vm EXCEPT
            !.sink = IF st.expr = "Ident" /\ st.ident = st.new_name
                     THEN Append(@, Warning("unnecessary import rename to same name", NewNameSpan))
                     ELSE @,
            !.top = Define(@, st.new_name, source, NewNameSpan)]

\* lines 46-165: what follows the resolution of the source
ImportFrom(st, vm0, source, is_str) ==
    LET vm == Rename(st, vm0, source)
        scope == ValueScope(source)
    IN  CASE st.imports.kind = "none" -> BareImport(st, vm, source, is_str)
          [] st.imports.kind = "wildcard" ->
                Returned([vm EXCEPT !.top = ImportAll(@, scope, 1)], <<>>)
          [] OTHER ->
                LET done == ImportItems([vm |-> vm, errors |-> <<>>], st.imports.items, 1, scope)
                IN  Returned(done.vm, done.errors)

\* Mutant of ModuleImport_eval: a function is accepted whether it has a scope or not.
ModuleImportAnyFunction(st, vm) ==
    LET source == st.value
    IN  CASE source.k \in {"func", "type", "module"} -> ImportFrom(st, vm, source, FALSE)
          [] source.k = "str" ->
                LET got == import(MainId, MainRoute, source.text, source_span)
                    loaded == [vm EXCEPT !.sink = @ \o got.warnings, !.loads = @ \o got.loads]
                IN  IF ~got.ok
                    THEN Returned(loaded, got.errors)
                    ELSE ImportFrom(st, loaded, got.module, TRUE)
          [] OTHER ->
                Returned(vm, <<Error("expected path, module, function, or type", source_span,
                                     Ty(source))>>)

\* lines 18-166
ModuleImport_eval(st, vm) ==
    LET source == st.value
    IN  CASE source.k = "func" ->
                IF FuncScopeIsNone(source)
                THEN Returned(vm, <<Error("cannot import from user-defined functions", source_span, "")>>)
                ELSE ImportFrom(st, vm, source, FALSE)
          [] source.k = "type" -> ImportFrom(st, vm, source, FALSE)
          [] source.k = "module" -> ImportFrom(st, vm, source, FALSE)
          [] source.k = "str" ->
                LET got == import(MainId, MainRoute, source.text, source_span)
                    loaded == [vm EXCEPT !.sink = @ \o got.warnings, !.loads = @ \o got.loads]
                IN  IF ~got.ok
                    THEN Returned(loaded, got.errors)
                    ELSE ImportFrom(st, loaded, got.module, TRUE)
          [] OTHER ->
                Returned(vm, <<Error("expected path, module, function, or type", source_span,
                                     Ty(source))>>)

(***************************************************************************)
(* ModuleInclude::eval                                                     *)
(***************************************************************************)
Content(module) == Val("content", 0, NoText, FALSE, module.name, module.scope)

\* Mutant of ModuleInclude_eval: every value with a scope is accepted, as import does.
ModuleIncludeAnyNamespace(st, vm) ==
    LET source == st.value
    IN  CASE source.k = "str" ->
                LET got == import(MainId, MainRoute, source.text, source_span)
                    loaded == [vm EXCEPT !.sink = @ \o got.warnings, !.loads = @ \o got.loads]
                IN  IF ~got.ok
                    THEN Returned(loaded, got.errors)
                    ELSE [Returned(loaded, <<>>) EXCEPT !.value = Content(got.module)]
          [] HasScope(source) -> [Returned(vm, <<>>) EXCEPT !.value = Content(source)]
          [] source.k = "func" ->
                Returned(vm, <<Error("cannot import from user-defined functions", source_span, "")>>)
          [] OTHER ->
                Returned(vm, <<Error("expected path or module", source_span, Ty(source))>>)

ModuleInclude_eval(st, vm) ==
    LET source == st.value
    IN  CASE source.k = "str" ->
                LET got == import(MainId, MainRoute, source.text, source_span)
                    loaded == [vm EXCEPT !.sink = @ \o got.warnings, !.loads = @ \o got.loads]
                IN  IF ~got.ok
                    THEN Returned(loaded, got.errors)
                    ELSE [Returned(loaded, <<>>) EXCEPT !.value = Content(got.module)]
          [] source.k = "module" -> [Returned(vm, <<>>) EXCEPT !.value = Content(source)]
          [] OTHER ->
                Returned(vm, <<Error("expected path or module", source_span, Ty(source))>>)

(***************************************************************************)
(* SpecStmt: one statement, its inputs drawn from bounded sets             *)
(***************************************************************************)
InnerScope == <<Entry("x", Binding(IntV(11), DefSpan(9, 1)))>>

OtherScope ==
    << Entry("sub", Binding(IntV(2), DefSpan(8, 1))),
       Entry("a", Binding(ClosureV, DefSpan(8, 2))),
       Entry("f", Binding(ModuleV("inner", InnerScope), DefSpan(8, 3))) >>

GScope == <<Entry("x", Binding(IntV(6), DefSpan(4, 1)))>>

SourceValues ==
    { IntV(9), NoneV, ClosureV, NativeFuncV("g", GScope), TypeV("T", GScope),
      ModuleV("m", OtherScope) }

Texts ==
    { Path("a"), Path("gone"), Path("main"), Path("my-mod"), Path("bad"), <<"@", "bad">> }
    \cup { PackageText("preview", n, "0.1.0") :
             n \in {"example", "nofile", "binary", "broken", "renamed", "aged", "noentry"} }

Source(expr, ident, value) == [expr |-> expr, ident |-> ident, value |-> value]

Sources ==
    { Source("Str", "", StrV(t)) : t \in Texts }
    \cup { Source("Ident", "m", v) : v \in SourceValues \cup {StrV(t) : t \in Texts} }
    \cup { Source("Other", "", v) : v \in SourceValues \cup {StrV(t) : t \in Texts} }
    \cup { Source("FieldAccess", "m", v) :
              v \in {ModuleV("m", OtherScope), TypeV("T", GScope), StrV(Path("a"))} }

\* The sources against which whole item lists are walked.
WalkSources ==
    { Source("Str", "", StrV(Path("a"))),
      Source("Other", "", ModuleV("m", OtherScope)),
      Source("Ident", "m", NativeFuncV("g", GScope)) }

ItemPaths ==
    { <<"a">>, <<"zz">>, <<"sub", "x">>, <<"sub", "zz">>, <<"a", "x">>, <<"f", "x">>,
      <<"g", "x">>, <<"T", "x">>, <<"sub", "deep", "z">> }

\* The paths that also occur renamed, `as x`.
RenamedPaths == { <<"a">>, <<"sub", "x">>, <<"f", "x">> }

ItemSet ==
    { Item(p, FALSE, NoName) : p \in ItemPaths } \cup { Item(p, TRUE, "x") : p \in RenamedPaths }

SeqsUpTo(S, lo, hi) == UNION { [1..n -> S] : n \in lo..hi }

NewNames == {NoName, "m", "x"}

Statement(form, src, new_name, imports) ==
    [form |-> form, expr |-> src.expr, ident |-> src.ident, value |-> src.value,
     new_name |-> new_name, imports |-> imports]

SimpleImports == {NoImports, Wildcard} \cup { Items(<<it>>) : it \in ItemSet }

\* Every source with every simple form; whole item lists against the WalkSources;
\* include of every source.
IsStatement(st) ==
    \/ \E src \in Sources, n \in NewNames, im \in SimpleImports :
          st = Statement("import", src, n, im)
    \/ \E src \in WalkSources, n \in NewNames, l \in SeqsUpTo(ItemSet, 2, MaxItems) :
          st = Statement("import", src, n, Items(l))
    \/ \E src \in Sources : st = Statement("include", src, NoName, NoImports)

\* What the importing file has bound before the statement.
LocalScope ==
    << Entry("a", Binding(IntV(0), Span("local", 0, 1))),
       Entry("keep", Binding(IntV(10), Span("local", 0, 2))) >>

NoResult == [ok |-> TRUE, errors |-> <<>>, value |-> NoneV]

NoOutcome == [ok |-> TRUE, errors |-> <<>>, module |-> NoneV]

InitStmt ==
    /\ IsStatement(stmt)
    /\ top \in {<<>>, LocalScope}
    /\ before = top
    /\ sink = <<>>
    /\ loads = <<>>
    /\ result = NoResult
    /\ pc = "ready"
    /\ files = <<>>
    /\ stack = <<>>
    /\ cache = <<>>
    /\ execs = <<>>
    /\ outcome = NoOutcome

Complete(r) ==
    /\ top' = r.top
    /\ sink' = r.sink
    /\ loads' = r.loads
    /\ result' = [ok |-> r.ok, errors |-> r.errors, value |-> r.value]
    /\ pc' = "done"
    /\ UNCHANGED <<stmt, before>>
    /\ UNCHANGED chainVars

EvalImport ==
    /\ pc = "ready"
    /\ stmt.form = "import"
    /\ Complete(ModuleImport_eval(stmt, Vm(top, sink, loads)))

EvalInclude ==
    /\ pc = "ready"
    /\ stmt.form = "include"
    /\ Complete(ModuleInclude_eval(stmt, Vm(top, sink, loads)))

NextStmt == EvalImport \/ EvalInclude

SpecStmt == InitStmt /\ [][NextStmt]_vars

(***************************************************************************)
(* Vocabulary of the statement-level properties                            *)
(***************************************************************************)
ImportDone == pc = "done" /\ stmt.form = "import"

IncludeDone == pc = "done" /\ stmt.form = "include"

\* What import returns for the statement's text source.
Loaded == import(MainId, MainRoute, stmt.value.text, source_span)

SourceAccepted ==
    \/ stmt.value.k \in {"module", "type"}
    \/ stmt.value.k = "func" /\ stmt.value.has
    \/ stmt.value.k = "str" /\ Loaded.ok

SourceModule == IF stmt.value.k = "str" THEN Loaded.module ELSE stmt.value

\* A name's binding in a scope, as an option.
Lookup(scope, name) ==
    IF \E k \in 1..Len(scope) : scope[k].name = name
    THEN {scope[k].binding : k \in {h \in 1..Len(scope) : scope[h].name = name}}
    ELSE {}

Namespace(v) == v.k \in {"module", "type"} \/ (v.k = "func" /\ v.has)

\* The scope in which component j of a path is looked up, when all components before
\* it are bound to namespaces.
RECURSIVE Reach(_, _, _)
Reach(scope, path, j) ==
    IF j = 1
    THEN scope
    ELSE (CHOOSE b \in Lookup(Reach(scope, path, j - 1), path[j - 1]) : TRUE).value.scope

RECURSIVE Walkable(_, _, _)
\* Components 1..j-1 are all bound to namespaces.
Walkable(scope, path, j) ==
    \/ j = 1
    \/ /\ Walkable(scope, path, j - 1)
       /\ \E b \in Lookup(Reach(scope, path, j - 1), path[j - 1]) : Namespace(b.value)

FailsAt(scope, path, j) ==
    /\ Walkable(scope, path, j)
    /\ \/ Lookup(Reach(scope, path, j), path[j]) = {}
       \/ /\ j < Len(path)
          /\ \E b \in Lookup(Reach(scope, path, j), path[j]) : ~Namespace(b.value)

ItemFails(scope, item) == \E j \in 1..Len(item.path) : FailsAt(scope, item.path, j)

FailIndex(scope, item) == CHOOSE j \in 1..Len(item.path) : FailsAt(scope, item.path, j)

\* The binding a resolvable item copies.
ItemBinding(scope, item) ==
    CHOOSE b \in Lookup(Reach(scope, item.path, Len(item.path)), OriginalName(item)) : TRUE

ItemsDone == ImportDone /\ stmt.imports.kind = "items" /\ SourceAccepted

ItemCount == Len(stmt.imports.items)

FailingItems == {i \in 1..ItemCount : ItemFails(SourceModule.scope, stmt.imports.items[i])}

\* The names other than the statement's rename: bound as before the statement.
ItemBindingsUnchanged ==
    \A n \in (ScopeNames(top) \cup ScopeNames(before)) \ {stmt.new_name} :
        Lookup(top, n) = Lookup(before, n)

(***************************************************************************)
(* C1: a failed import statement leaves no partial bindings: when at least *)
(* one item of an explicit item list fails to resolve, the importer's      *)
(* scope holds the item bindings it held before the statement.             *)
(* The code binds each resolvable item as it goes (line 155) and returns   *)
(* the errors afterwards (line 160).                                       *)
(***************************************************************************)
C1_NoPartialBindings ==
    (ItemsDone /\ FailingItems # {}) => (~result.ok /\ ItemBindingsUnchanged)

(***************************************************************************)
(* C2: the errors of an item list are aggregated: every item is processed, *)
(* each failing item contributes exactly one error, at its first failing   *)
(* component's span, resolvable items contribute none, the errors are in   *)
(* item order, and the statement fails iff some item failed.               *)
(***************************************************************************)
\* The k-th failing item, in item order.
NthFailing(k) ==
    CHOOSE i \in FailingItems : Cardinality({h \in FailingItems : h < i}) = k - 1

\* The last resolvable item that binds the name n.
LastBinder(n) ==
    LET binders == {i \in (1..ItemCount) \ FailingItems : BoundName(stmt.imports.items[i]) = n}
    IN  CHOOSE i \in binders : \A h \in binders : h <= i

C2_ErrorsAggregated ==
    ItemsDone =>
        /\ result.ok <=> FailingItems = {}
        /\ Len(result.errors) = Cardinality(FailingItems)
        /\ \A k \in 1..Len(result.errors) :
              /\ result.errors[k].span =
                    ComponentSpan(NthFailing(k),
                                  FailIndex(SourceModule.scope, stmt.imports.items[NthFailing(k)]))
              /\ result.errors[k].msg \in
                    { "unresolved import", "cannot import from user-defined functions",
                      "expected module, function, or type" }
        /\ \A i \in (1..ItemCount) \ FailingItems :
              Lookup(top, BoundName(stmt.imports.items[i])) =
                 {ItemBinding(SourceModule.scope,
                              stmt.imports.items[LastBinder(BoundName(stmt.imports.items[i]))])}

\* A list whose first item fails and whose second item resolves, both processed.
C2_Witness ==
    /\ ItemsDone
    /\ ItemCount = 2
    /\ FailingItems = {1}
    /\ Len(result.errors) = 1
    /\ Lookup(top, BoundName(stmt.imports.items[2])) # Lookup(before, BoundName(stmt.imports.items[2]))

(***************************************************************************)
(* C6: manifest validation precedes entrypoint loading: when the manifest  *)
(* cannot be loaded, is malformed or disagrees with the requested name or  *)
(* version, the import fails and the World is never asked for the          *)
(* entrypoint; the entrypoint is requested only after the manifest was     *)
(* requested and found valid.                                              *)
(***************************************************************************)
PackageRequested ==
    /\ pc = "done"
    /\ stmt.value.k = "str"
    /\ Len(stmt.value.text) > 0
    /\ stmt.value.text[1] = "@"
    /\ ParsePackageSpec(stmt.value.text).ok

RequestedSpec == ParsePackageSpec(stmt.value.text).spec

ManifestGood(spec) ==
    /\ ManifestFile(spec).found
    /\ ManifestFile(spec).utf8
    /\ ManifestFile(spec).parses
    /\ ManifestFile(spec).name = spec[2]
    /\ ManifestFile(spec).version = spec[3]

Entrypoint(spec) == FileId(spec, ManifestFile(spec).entrypoint)

Requested(id) == \E k \in 1..Len(loads) : loads[k] = id

C6_ManifestBeforeEntrypoint ==
    PackageRequested =>
        /\ ~ManifestGood(RequestedSpec) =>
              /\ ~result.ok
              /\ \A k \in 1..Len(loads) : loads[k].vpath = <<"typst", "toml">>
        /\ \A k \in 1..Len(loads) :
              loads[k] = Entrypoint(RequestedSpec) =>
                 /\ ManifestGood(RequestedSpec)
                 /\ \E h \in 1..(k - 1) : loads[h] = ManifestId(RequestedSpec)

\* A manifest that declares another name: the import failed with only the manifest read.
C6_Witness ==
    /\ PackageRequested
    /\ RequestedSpec[2] = "renamed"
    /\ ~result.ok
    /\ loads = <<ManifestId(RequestedSpec)>>

(***************************************************************************)
(* C7: include and import classify their source identically: include       *)
(* accepts a source value exactly when import's source resolution accepts  *)
(* it, and rejects it with the same error otherwise.                       *)
(* The code of include accepts text and modules only (lines 175-179).      *)
(***************************************************************************)
\* import's source resolution on the statement's source: a renamed wildcard import
\* fails only there.
ImportResolution ==
    ModuleImport_eval(Statement("import", Source(stmt.expr, stmt.ident, stmt.value), "x", Wildcard),
                      Vm(<<>>, <<>>, <<>>))

Messages(errors) == [k \in 1..Len(errors) |-> errors[k].msg]

DynamicText == stmt.value.k = "str" /\ stmt.expr # "Str" /\ Loaded.ok

C8_DynamicNeedsName ==
    (ImportDone /\ DynamicText /\ stmt.imports.kind = "none") =>
        IF stmt.new_name = NoName
        THEN /\ ~result.ok
             /\ result.errors =
                   <<Error("dynamic import requires an explicit name", source_span, "")>>
             /\ top = before
        ELSE /\ result.ok
             /\ Lookup(top, stmt.new_name) = {Binding(Loaded.module, NewNameSpan)}
             /\ ItemBindingsUnchanged

\* An identifier that evaluates to a loadable text: a name could be derived, and
\* the import failed.
C8_Witness ==
    /\ ImportDone
    /\ DynamicText
    /\ stmt.expr = "Ident"
    /\ bare_name(stmt).ok
    /\ stmt.imports.kind = "none"
    /\ stmt.new_name = NoName
    /\ ~result.ok

(***************************************************************************)
(* C9: a nested item path reports the right error at the right component:  *)
(* an intermediate component bound to a callable without a scope gives     *)
(* 'cannot import from user-defined functions', one bound to any value     *)
(* that is no function, module or type gives 'expected module, function,   *)
(* or type'; the error is at that component's span, the item gives no      *)
(* other error and binds nothing; a component bound to a namespace is      *)
(* descended into.                                                         *)
(***************************************************************************)
ErrorsOfItem(i) ==
    {k \in 1..Len(result.errors) :
        result.errors[k].span.kind = "component" /\ result.errors[k].span.i = i}

\* The value an item's first failing component is bound to, if it is bound.
FailingValues(item) ==
    {b.value : b \in Lookup(Reach(SourceModule.scope, item.path, FailIndex(SourceModule.scope, item)),
                            item.path[FailIndex(SourceModule.scope, item)])}

\* No resolvable item, and no rename, binds the name of item i.
OnlyBinder(i) ==
    /\ BoundName(stmt.imports.items[i]) # stmt.new_name
    /\ \A h \in (1..ItemCount) \ FailingItems :
          BoundName(stmt.imports.items[h]) # BoundName(stmt.imports.items[i])

C9_NestedPathErrors ==
    ItemsDone =>
        /\ \A i \in FailingItems :
              \A v \in FailingValues(stmt.imports.items[i]) :
                 /\ Cardinality(ErrorsOfItem(i)) = 1
                 /\ \A k \in ErrorsOfItem(i) :
                       /\ result.errors[k].span =
                             ComponentSpan(i, FailIndex(SourceModule.scope, stmt.imports.items[i]))
                       /\ (v.k = "func" /\ ~v.has) =>
                             result.errors[k].msg = "cannot import from user-defined functions"
                       /\ v.k \notin {"func", "module", "type"} =>
                             /\ result.errors[k].msg = "expected module, function, or type"
                             /\ result.errors[k].found = Ty(v)
                 /\ OnlyBinder(i) =>
                       Lookup(top, BoundName(stmt.imports.items[i])) =
                          Lookup(before, BoundName(stmt.imports.items[i]))
        /\ \A i \in (1..ItemCount) \ FailingItems :
              (Len(stmt.imports.items[i].path) > 1
                 /\ LastBinder(BoundName(stmt.imports.items[i])) = i) =>
                 Lookup(top, BoundName(stmt.imports.items[i])) =
                    Lookup(Reach(SourceModule.scope, stmt.imports.items[i].path,
                                 Len(stmt.imports.items[i].path)),
                           OriginalName(stmt.imports.items[i]))

\* One list holds an item that fails at a closure and one that fails at a number.
C9_Witness ==
    /\ ItemsDone
    /\ \E i \in FailingItems : \E v \in FailingValues(stmt.imports.items[i]) :
          v.k = "func" /\ ~v.has
    /\ \E i \in FailingItems : \E v \in FailingValues(stmt.imports.items[i]) : v.k = "int"
    /\ Len(result.errors) = 2

(***************************************************************************)
(* C10: a wildcard import copies the whole source scope: every name of the *)
(* source's scope is bound in the importer's top scope to a clone of the   *)
(* source's binding (value and original definition span), names already    *)
(* bound are overwritten, the other names are unchanged, and there is no   *)
(* error.  (The statement's own rename, if any, is the one other name it   *)
(* binds.)                                                                 *)
(***************************************************************************)
C10_WildcardCopiesScope ==
    (ImportDone /\ stmt.imports.kind = "wildcard" /\ SourceAccepted) =>
        /\ result.ok
        /\ result.errors = <<>>
        /\ \A n \in ScopeNames(SourceModule.scope) :
              Lookup(top, n) = Lookup(SourceModule.scope, n)
        /\ \A n \in ((ScopeNames(top) \cup ScopeNames(before)) \ ScopeNames(SourceModule.scope))
                       \ {stmt.new_name} :
              Lookup(top, n) = Lookup(before, n)

\* The importer's `a` was overwritten by the source's, `keep` was kept.
C10_Witness ==
    /\ ImportDone
    /\ stmt.imports.kind = "wildcard"
    /\ SourceAccepted
    /\ stmt.new_name = NoName
    /\ Lookup(before, "a") # {}
    /\ Lookup(top, "a") = Lookup(SourceModule.scope, "a")
    /\ Lookup(top, "a") # Lookup(before, "a")
    /\ Lookup(top, "keep") = Lookup(before, "keep")
    /\ Len(top) > 3

(***************************************************************************)
(* Spec: one evaluation chain over an import graph                         *)
(***************************************************************************)
ExampleEntry == FileId(<<"preview", "example", "0.1.0">>, Path("lib"))

\* The files whose imports the graph chooses, and the texts they may import.
GraphFiles == {Local("main"), Local("a"), Local("b")}

ChainFiles == GraphFiles \cup {ExampleEntry}

Targets ==
    { Path("main"), Path("a"), Path("b"), Path("gone"),
      PackageText("preview", "example", "0.1.0"), PackageText("preview", "renamed", "0.1.0") }

\* An import graph: the import statements of main, a and b; the package's entrypoint
\* imports nothing.
Graph(main, a, b) ==
    [id \in ChainFiles |->
        CASE id = Local("main") -> main
          [] id = Local("a") -> a
          [] id = Local("b") -> b
          [] OTHER -> <<>>]

\* The graphs with at most MaxImports import statements in all.
IsGraph(g) ==
    \E main \in SeqsUpTo(Targets, 0, MaxImports) :
        \E a \in SeqsUpTo(Targets, 0, MaxImports - Len(main)) :
            \E b \in SeqsUpTo(Targets, 0, MaxImports - Len(main) - Len(a)) :
                g = Graph(main, a, b)

\* The span of the k-th import statement of a file.
StatementSpan(id, k) == [kind |-> Stem(id), i |-> k, j |-> 0]

Frame(id, route, span, target) ==
    [id |-> id, pc |-> 1, route |-> route, span |-> span, target |-> target,
     status |-> IF BodyFails(id) THEN "failed" ELSE "run",
     errors |-> IF BodyFails(id) THEN <<BodyError(id)>> ELSE <<>>,
     got |-> NoneV]

RootTarget ==
    [ok |-> TRUE, errors |-> <<>>, loads |-> <<>>, id |-> MainId, name |-> "", package |-> FALSE]

Top == stack[Len(stack)]

\* The import statement the innermost evaluation is about to evaluate.
AtImport ==
    /\ pc = "running"
    /\ stack # <<>>
    /\ Top.status = "run"
    /\ Top.pc <= Len(files[Top.id])

NextText == files[Top.id][Top.pc]

NextSpan == StatementSpan(Top.id, Top.pc)

NextTarget == import_target(Top.id, NextText, NextSpan)

NextGuard == import_file_guard(NextTarget.id, NextSpan, Top.route)

\* The files a file's imports resolve to.
Imported(g, id) ==
    { import_target(id, g[id][k], StatementSpan(id, k)).id :
        k \in { h \in 1..Len(g[id]) : import_target(id, g[id][h], StatementSpan(id, h)).ok } }
    \cap ChainFiles

RECURSIVE Dependencies(_, _, _)
Dependencies(g, seen, n) ==
    IF n = 0
    THEN seen
    ELSE Dependencies(g, seen \cup UNION {Imported(g, id) : id \in seen}, n - 1)

\* The fingerprint of an evaluation's inputs: the text of the file and of every file
\* it transitively imports.
Fingerprint(g, id) ==
    { <<d, g[d]>> : d \in Dependencies(g, {id}, Cardinality(ChainFiles)) }

CacheKey(id) == [id |-> id, fingerprint |-> Fingerprint(files, id)]

\* Mutant of CacheHit: no entry is ever found.
CacheNeverHit(id) == FALSE

CacheHit(id) == \E k \in 1..Len(cache) : cache[k].key = CacheKey(id)

CacheEntry(id) == cache[CHOOSE k \in 1..Len(cache) : cache[k].key = CacheKey(id)]

CacheStore(id, ok, errors, module) ==
    IF CacheHit(id)
    THEN cache
    ELSE Append(cache, [key |-> CacheKey(id), ok |-> ok, errors |-> errors, module |-> module])

\* The engine's route of the evaluation that import_file starts.
ExtendRoute(route, id) == Append(route, id)

InitChain ==
    /\ IsGraph(files)
    /\ stack = <<>>
    /\ cache = <<>>
    /\ execs = [id \in ChainFiles |-> 0]
    /\ outcome = NoOutcome
    /\ sink = <<>>
    /\ loads = <<>>
    /\ pc = "idle"
    /\ stmt = <<>>
    /\ top = <<>>
    /\ before = <<>>
    /\ result = NoResult

\* The host evaluates the root file.
Start ==
    /\ pc = "idle"
    /\ pc' = "running"
    /\ stack' = <<Frame(MainId, ExtendRoute(<<>>, MainId), StatementSpan(MainId, 0), RootTarget)>>
    /\ execs' = [execs EXCEPT ![MainId] = @ + 1]
    /\ sink' = Append(sink, BodyWarning(MainId))
    /\ UNCHANGED <<files, cache, outcome, loads, stmt, top, before, result>>

\* Mutant of Fail: on a failure the route of the innermost evaluation is left in place.
FailRouteLeaked(frame, errors) ==
    [frame EXCEPT !.status = "failed", !.errors = errors, !.route = Top.route]

Fail(frame, errors) == [frame EXCEPT !.status = "failed", !.errors = errors]

\* import fails before import_file: a bad specifier or a bad manifest.
ImportUnresolved ==
    /\ AtImport
    /\ ~NextTarget.ok
    /\ loads' = loads \o NextTarget.loads
    /\ stack' = [stack EXCEPT ![Len(stack)] = Fail(@, NextTarget.errors)]
    /\ UNCHANGED <<files, cache, execs, outcome, sink, pc, stmt, top, before, result>>

\* import_file fails: the source does not load, or the file is on the route.
ImportRefused ==
    /\ AtImport
    /\ NextTarget.ok
    /\ ~NextGuard.ok
    /\ loads' = loads \o NextTarget.loads \o NextGuard.loads
    /\ stack' = [stack EXCEPT ![Len(stack)] = Fail(@, NextGuard.errors)]
    /\ UNCHANGED <<files, cache, execs, outcome, sink, pc, stmt, top, before, result>>

\* The evaluation of the file is cached: its result is returned, its body is not run.
ImportCached ==
    /\ AtImport
    /\ NextTarget.ok
    /\ NextGuard.ok
    /\ CacheHit(NextTarget.id)
    /\ loads' = loads \o NextTarget.loads \o NextGuard.loads
    /\ stack' = [stack EXCEPT ![Len(stack)] =
                    IF CacheEntry(NextTarget.id).ok
                    THEN [@ EXCEPT !.pc = @ + 1,
                                   !.got = NameModule(NextTarget, CacheEntry(NextTarget.id).module)]
                    ELSE Fail(@, Trace(CacheEntry(NextTarget.id).errors, NextSpan))]
    /\ UNCHANGED <<files, cache, execs, outcome, sink, pc, stmt, top, before, result>>

\* import_file evaluates the file: a new evaluation starts, on the extended route.
ImportEnter ==
    /\ AtImport
    /\ NextTarget.ok
    /\ NextGuard.ok
    /\ ~CacheHit(NextTarget.id)
    /\ loads' = loads \o NextTarget.loads \o NextGuard.loads
    /\ stack' = Append(stack, Frame(NextTarget.id, ExtendRoute(Top.route, NextTarget.id),
                                    NextSpan, NextTarget))
    /\ execs' = [execs EXCEPT ![NextTarget.id] = @ + 1]
    /\ sink' = Append(sink, BodyWarning(NextTarget.id))
    /\ UNCHANGED <<files, cache, outcome, pc, stmt, top, before, result>>

Finished(frame) == frame.status = "failed" \/ frame.pc > Len(files[frame.id])

\* An imported file's evaluation returns to import_file, which traces its errors and
\* returns to the importing statement.
Return ==
    /\ pc = "running"
    /\ Len(stack) > 1
    /\ Finished(Top)
    /\ cache' = CacheStore(Top.id, Top.status = "run", Top.errors, FileModule(Top.id))
    /\ stack' = [SubSeq(stack, 1, Len(stack) - 1) EXCEPT ![Len(stack) - 1] =
                    IF Top.status = "run"
                    THEN [@ EXCEPT !.pc = @ + 1,
                                   !.got = NameModule(Top.target, FileModule(Top.id))]
                    ELSE Fail(@, Trace(Top.errors, Top.span))]
    /\ UNCHANGED <<files, execs, outcome, sink, loads, pc, stmt, top, before, result>>

\* The evaluation of the root file returns to the host.
Finish ==
    /\ pc = "running"
    /\ Len(stack) = 1
    /\ Finished(Top)
    /\ outcome' = [ok |-> Top.status = "run", errors |-> Top.errors,
                   module |-> IF Top.status = "run" THEN FileModule(Top.id) ELSE NoneV]
    /\ stack' = <<>>
    /\ pc' = "returned"
    /\ UNCHANGED <<files, cache, execs, sink, loads, stmt, top, before, result>>

Next ==
    \/ Start
    \/ ImportUnresolved
    \/ ImportRefused
    \/ ImportCached
    \/ ImportEnter
    \/ Return
    \/ Finish

Spec == InitChain /\ [][Next]_vars

(***************************************************************************)
(* C3: the cycle guard: when import_file is called for a file that is on   *)
(* the current route, the importing statement fails with 'cyclic import'   *)
(* at its own span, and no evaluation of that file starts.                 *)
(***************************************************************************)
OnRoute(id) == \E k \in 1..Len(Top.route) : Top.route[k] = id

C3_CycleGuard ==
    [][ (AtImport /\ NextTarget.ok /\ OnRoute(NextTarget.id)) =>
            /\ Len(stack') = Len(stack)
            /\ stack'[Len(stack)].status = "failed"
            /\ stack'[Len(stack)].errors = <<Error("cyclic import", NextSpan, "")>>
            /\ execs' = execs
            /\ sink' = sink ]_vars

\* A cycle through three files was refused at the third file's import statement.
C3_Witness ==
    /\ Len(stack) = 3
    /\ Top.status = "failed"
    /\ Top.errors = <<Error("cyclic import", StatementSpan(Top.id, Top.pc), "")>>
    /\ import_target(Top.id, files[Top.id][Top.pc], StatementSpan(Top.id, Top.pc)).id = MainId

(***************************************************************************)
(* C4: in every reachable state the import route of every active           *)
(* evaluation holds no file identity twice; it is the sequence of the      *)
(* files under active evaluation.                                          *)
(***************************************************************************)
C4_RouteNoRepeat ==
    \A f \in 1..Len(stack) :
        /\ \A h, k \in 1..Len(stack[f].route) :
              stack[f].route[h] = stack[f].route[k] => h = k
        /\ stack[f].route = [k \in 1..f |-> stack[k].id]

\* Three evaluations are active, one inside the other.
C4_Witness ==
    /\ Len(stack) = 3
    /\ Len(Top.route) = 3
    /\ Top.status = "run"

(***************************************************************************)
(* C5: evaluate-once caching: within one run a file identity imported      *)
(* twice has its body executed once; the second import returns the cached  *)
(* module and adds no warning of that file's body to the sink.             *)
(***************************************************************************)
BodyWarnings(id) == {k \in 1..Len(sink) : sink[k] = BodyWarning(id)}

\* The import statement a running evaluation completed last.
LastTarget(frame) ==
    import_target(frame.id, files[frame.id][frame.pc - 1], StatementSpan(frame.id, frame.pc - 1))

C5_EvaluateOnce ==
    pc \in {"running", "returned"} =>
        /\ \A id \in ChainFiles :
              /\ execs[id] <= 1
              /\ Cardinality(BodyWarnings(id)) = execs[id]
        /\ \A f \in 1..Len(stack) :
              (stack[f].status = "run" /\ stack[f].pc > 1) =>
                 stack[f].got = NameModule(LastTarget(stack[f]), FileModule(LastTarget(stack[f]).id))

\* main imported a.typ twice: both statements returned, the body of a.typ ran once.
C5_Witness ==
    /\ pc = "running"
    /\ Len(stack) = 1
    /\ Top.status = "run"
    /\ Top.pc = 3
    /\ files[MainId][1] = Path("a")
    /\ files[MainId][2] = Path("a")
    /\ execs[Local("a")] = 1
    /\ Cardinality(BodyWarnings(Local("a"))) = 1
    /\ Top.got = FileModule(Local("a"))

(***************************************************************************)
(* C11: the import route is restored on every exit path: whatever a call   *)
(* of import_file returns (a module, a file-load error, a cyclic-import    *)
(* error, an error of the recursive evaluation), the route of the calling  *)
(* evaluation is the route it had before the call.  No step changes the    *)
(* route of an evaluation that stays active, and an evaluation that        *)
(* returns leaves its caller innermost with the caller's own route.        *)
(***************************************************************************)
C11_RouteRestored ==
    [][ /\ \A f \in 1..Len(stack) :
              f <= Len(stack') =>
                 /\ stack'[f].route = stack[f].route
                 /\ stack'[f].id = stack[f].id
        /\ (AtImport /\ Len(stack') <= Len(stack)) =>
              /\ Len(stack') = Len(stack)
              /\ stack'[Len(stack')].route = Top.route
        /\ (Len(stack) > 1 /\ Len(stack') < Len(stack)) =>
              /\ Len(stack') = Len(stack) - 1
              /\ stack'[Len(stack')].route = SubSeq(Top.route, 1, Len(Top.route) - 1) ]_vars

\* An error of the recursive evaluation came back through two import sites: the
\* root evaluation failed with it and has the route it started with.
C11_Witness ==
    /\ pc = "running"
    /\ Len(stack) = 1
    /\ Top.status = "failed"
    /\ Len(Top.errors) = 1
    /\ Len(Top.errors[1].trace) = 2
    /\ Top.route = <<MainId>>

(***************************************************************************)
(* SpecPar: several evaluation chains over one World and one cache         *)
(*                                                                         *)
(* stack, pc, sink, loads and outcome are kept per chain; files, cache and *)
(* execs are shared.                                                       *)
(***************************************************************************)
Chains == {"c1", "c2"}

\* The files a chain may be started on.
Roots == {Local("main"), Local("a")}

ParTargets ==
    { Path("a"), Path("b"), Path("gone"), PackageText("preview", "renamed", "0.1.0") }

\* The graphs over these texts with at most MaxImports import statements in all.
IsParGraph(g) ==
    \E main \in SeqsUpTo(ParTargets, 0, MaxImports) :
        \E a \in SeqsUpTo(ParTargets, 0, MaxImports - Len(main)) :
            \E b \in SeqsUpTo(ParTargets, 0, MaxImports - Len(main) - Len(a)) :
                g = Graph(main, a, b)

ParTop(c) == stack[c][Len(stack[c])]

ParAtImport(c) ==
    /\ pc[c] = "running"
    /\ stack[c] # <<>>
    /\ ParTop(c).status = "run"
    /\ ParTop(c).pc <= Len(files[ParTop(c).id])

ParSpan(c) == StatementSpan(ParTop(c).id, ParTop(c).pc)

ParTarget(c) == import_target(ParTop(c).id, files[ParTop(c).id][ParTop(c).pc], ParSpan(c))

ParGuard(c) == import_file_guard(ParTarget(c).id, ParSpan(c), ParTop(c).route)

\* The evaluations of a file that are active, in any chain.
Evaluations(id) ==
    { e \in UNION { { <<c, f>> : f \in 1..Len(stack[c]) } : c \in Chains } :
        stack[e[1]][e[2]].id = id }

\* Mutant of InFlight: a requester never waits.
InFlightUnseen(id) == FALSE

\* The key of the file is being evaluated by some chain.
InFlight(id) == Evaluations(id) # {}

InitPar ==
    /\ IsParGraph(files)
    /\ stack = [c \in Chains |-> <<>>]
    /\ cache = <<>>
    /\ execs = [id \in ChainFiles |-> 0]
    /\ outcome = [c \in Chains |-> NoOutcome]
    /\ sink = [c \in Chains |-> <<>>]
    /\ loads = [c \in Chains |-> <<>>]
    /\ pc = [c \in Chains |-> "idle"]
    /\ stmt = <<>>
    /\ top = <<>>
    /\ before = <<>>
    /\ result = NoResult

\* The host evaluates a root file in chain c: no entry, no evaluation in flight.
ParStart(c) ==
    \E root \in Roots :
        /\ pc[c] = "idle"
        /\ ~CacheHit(root)
        /\ ~InFlight(root)
        /\ pc' = [pc EXCEPT ![c] = "running"]
        /\ stack' = [stack EXCEPT ![c] =
                        <<Frame(root, ExtendRoute(<<>>, root), StatementSpan(root, 0),
                                [RootTarget EXCEPT !.id = root])>>]
        /\ execs' = [execs EXCEPT ![root] = @ + 1]
        /\ sink' = [sink EXCEPT ![c] = Append(@, BodyWarning(root))]
        /\ UNCHANGED <<files, cache, outcome, loads, stmt, top, before, result>>

\* The root file's evaluation is cached: chain c returns its result at once.
ParStartCached(c) ==
    \E root \in Roots :
        /\ pc[c] = "idle"
        /\ CacheHit(root)
        /\ pc' = [pc EXCEPT ![c] = "returned"]
        /\ outcome' = [outcome EXCEPT ![c] =
                          [ok |-> CacheEntry(root).ok, errors |-> CacheEntry(root).errors,
                           module |-> IF CacheEntry(root).ok THEN CacheEntry(root).module
                                      ELSE NoneV]]
        /\ UNCHANGED <<files, cache, execs, stack, sink, loads, stmt, top, before, result>>

\* import or import_file fails in chain c.
ParImportRefused(c) ==
    /\ ParAtImport(c)
    /\ ~ParTarget(c).ok \/ ~ParGuard(c).ok
    /\ loads' = [loads EXCEPT ![c] =
                    IF ParTarget(c).ok THEN @ \o ParTarget(c).loads \o ParGuard(c).loads
                    ELSE @ \o ParTarget(c).loads]
    /\ stack' = [stack EXCEPT ![c][Len(stack[c])] =
                    Fail(@, IF ParTarget(c).ok THEN ParGuard(c).errors ELSE ParTarget(c).errors)]
    /\ UNCHANGED <<files, cache, execs, outcome, sink, pc, stmt, top, before, result>>

ParImportCached(c) ==
    /\ ParAtImport(c)
    /\ ParTarget(c).ok
    /\ ParGuard(c).ok
    /\ CacheHit(ParTarget(c).id)
    /\ loads' = [loads EXCEPT ![c] = @ \o ParTarget(c).loads \o ParGuard(c).loads]
    /\ stack' = [stack EXCEPT ![c][Len(stack[c])] =
                    IF CacheEntry(ParTarget(c).id).ok
                    THEN [@ EXCEPT !.pc = @ + 1,
                                   !.got = NameModule(ParTarget(c),
                                                      CacheEntry(ParTarget(c).id).module)]
                    ELSE Fail(@, Trace(CacheEntry(ParTarget(c).id).errors, ParSpan(c)))]
    /\ UNCHANGED <<files, cache, execs, outcome, sink, pc, stmt, top, before, result>>

\* No entry and no evaluation of the key in flight: chain c evaluates the file.
\* While another chain evaluates it, the statement waits.
ParImportEnter(c) ==
    /\ ParAtImport(c)
    /\ ParTarget(c).ok
    /\ ParGuard(c).ok
    /\ ~CacheHit(ParTarget(c).id)
    /\ ~InFlight(ParTarget(c).id)
    /\ loads' = [loads EXCEPT ![c] = @ \o ParTarget(c).loads \o ParGuard(c).loads]
    /\ stack' = [stack EXCEPT ![c] =
                    Append(@, Frame(ParTarget(c).id,
                                    ExtendRoute(ParTop(c).route, ParTarget(c).id),
                                    ParSpan(c), ParTarget(c)))]
    /\ execs' = [execs EXCEPT ![ParTarget(c).id] = @ + 1]
    /\ sink' = [sink EXCEPT ![c] = Append(@, BodyWarning(ParTarget(c).id))]
    /\ UNCHANGED <<files, cache, outcome, pc, stmt, top, before, result>>

ParReturn(c) ==
    /\ pc[c] = "running"
    /\ Len(stack[c]) > 1
    /\ Finished(ParTop(c))
    /\ cache' = CacheStore(ParTop(c).id, ParTop(c).status = "run", ParTop(c).errors,
                           FileModule(ParTop(c).id))
    /\ stack' = [stack EXCEPT ![c] =
                    [SubSeq(@, 1, Len(@) - 1) EXCEPT ![Len(stack[c]) - 1] =
                        IF ParTop(c).status = "run"
                        THEN [@ EXCEPT !.pc = @ + 1,
                                       !.got = NameModule(ParTop(c).target,
                                                          FileModule(ParTop(c).id))]
                        ELSE Fail(@, Trace(ParTop(c).errors, ParTop(c).span))]]
    /\ UNCHANGED <<files, execs, outcome, sink, loads, pc, stmt, top, before, result>>

\* The root evaluation of chain c returns to the host; its result is stored.
ParFinish(c) ==
    /\ pc[c] = "running"
    /\ Len(stack[c]) = 1
    /\ Finished(ParTop(c))
    /\ cache' = CacheStore(ParTop(c).id, ParTop(c).status = "run", ParTop(c).errors,
                           FileModule(ParTop(c).id))
    /\ outcome' = [outcome EXCEPT ![c] =
                      [ok |-> ParTop(c).status = "run", errors |-> ParTop(c).errors,
                       module |-> IF ParTop(c).status = "run" THEN FileModule(ParTop(c).id)
                                  ELSE NoneV]]
    /\ stack' = [stack EXCEPT ![c] = <<>>]
    /\ pc' = [pc EXCEPT ![c] = "returned"]
    /\ UNCHANGED <<files, execs, sink, loads, stmt, top, before, result>>

NextPar ==
    \E c \in Chains :
        \/ ParStart(c)
        \/ ParStartCached(c)
        \/ ParImportRefused(c)
        \/ ParImportCached(c)
        \/ ParImportEnter(c)
        \/ ParReturn(c)
        \/ ParFinish(c)

SpecPar == InitPar /\ [][NextPar]_vars

(***************************************************************************)
(* C12: when several evaluation chains request the same (file identity,    *)
(* fingerprint) key, at most one evaluation of that key is in flight at    *)
(* any time; the other requesters wait and then observe the result of the  *)
(* first, so the body of the file is executed at most once for the key.    *)
(***************************************************************************)
\* The import statement an evaluation of chain c completed last.
ParLastTarget(frame) ==
    import_target(frame.id, files[frame.id][frame.pc - 1], StatementSpan(frame.id, frame.pc - 1))

Stored(ok, errors, module) ==
    \E k \in 1..Len(cache) :
        /\ cache[k].ok = ok
        /\ cache[k].errors = errors
        /\ ok => cache[k].module = module

C12_OneInFlight ==
    /\ \A id \in ChainFiles :
          /\ Cardinality(Evaluations(id)) <= 1
          /\ execs[id] <= 1
          /\ Cardinality({ <<c, k>> \in UNION { { <<d, h>> : h \in 1..Len(sink[d]) } : d \in Chains } :
                             sink[c][k] = BodyWarning(id) }) = execs[id]
    /\ \A c \in Chains :
          /\ \A f \in 1..Len(stack[c]) :
                (stack[c][f].status = "run" /\ stack[c][f].pc > 1) =>
                   /\ stack[c][f].got = FileModule(ParLastTarget(stack[c][f]).id)
                   /\ Stored(TRUE, <<>>, stack[c][f].got)
          /\ pc[c] = "returned" => Stored(outcome[c].ok, outcome[c].errors, outcome[c].module)

\* Chain c2 is evaluating a.typ; chain c1, started on main.typ, is at an import of
\* a.typ and waits.
C12_Witness ==
    /\ stack["c2"] # <<>>
    /\ ParTop("c2").id = Local("a")
    /\ ParAtImport("c1")
    /\ ParTop("c1").id = MainId
    /\ ParTarget("c1").id = Local("a")
    /\ ParGuard("c1").ok
    /\ ~CacheHit(Local("a"))
    /\ execs[Local("a")] = 1

(***************************************************************************)
(* C13: a rename is bound regardless of what follows: when the source      *)
(* resolves and the statement carries `as NewName`, NewName is bound to    *)
(* the source value before the item list is processed (so only a later     *)
(* item or wildcard entry of the same name replaces that binding), and it  *)
(* is bound after the statement returns, also when the item list fails;    *)
(* with a rename and no item list the statement succeeds and NewName is    *)
(* the only name it binds.                                                 *)
(***************************************************************************)
Renamed == ImportDone /\ SourceAccepted /\ stmt.new_name # NoName

RenameBinding == Binding(SourceModule, NewNameSpan)

\* The resolvable items that bind NewName themselves.
Rebinders ==
    {i \in (1..ItemCount) \ FailingItems : BoundName(stmt.imports.items[i]) = stmt.new_name}

C13_RenameBound ==
    Renamed =>
        /\ Lookup(top, stmt.new_name) # {}
        /\ stmt.imports.kind = "none" =>
              /\ result.ok
              /\ Lookup(top, stmt.new_name) = {RenameBinding}
              /\ ItemBindingsUnchanged
        /\ stmt.imports.kind = "wildcard" =>
              Lookup(top, stmt.new_name) =
                 IF stmt.new_name \in ScopeNames(SourceModule.scope)
                 THEN Lookup(SourceModule.scope, stmt.new_name)
                 ELSE {RenameBinding}
        /\ stmt.imports.kind = "items" =>
              Lookup(top, stmt.new_name) =
                 IF Rebinders # {}
                 THEN {ItemBinding(SourceModule.scope,
                                   stmt.imports.items[LastBinder(stmt.new_name)])}
                 ELSE {RenameBinding}

\* `import "a.typ" as m: zz, a`: the list failed, `m` is bound to the module.
C13_Witness ==
    /\ Renamed
    /\ stmt.imports.kind = "items"
    /\ ~result.ok
    /\ FailingItems = {1}
    /\ Lookup(before, stmt.new_name) = {}
    /\ Lookup(top, stmt.new_name) = {RenameBinding}
    /\ stmt.value.k = "str"

(***************************************************************************)
(* C14: the redundant-rename warning.  In a statement whose source         *)
(* resolves, `import <source> as N` emits exactly one 'unnecessary import  *)
(* rename to same name' warning (at N) when the source expression is a     *)
(* bare identifier equal to N and none otherwise; a renamed item `p as N`  *)
(* emits exactly one (at its N) when its path resolves and its final       *)
(* segment equals N and none otherwise; there is no other such warning.    *)
(* The warning prevents no binding and makes no statement fail: the names  *)
(* are bound and the statement fails iff an item fails.  A statement whose *)
(* source does not resolve emits none.                                     *)
(***************************************************************************)
RedundantRename(span) == Warning("unnecessary import rename to same name", span)

WarningsAt(span) == {k \in 1..Len(sink) : sink[k] = RedundantRename(span)}

RedundantRenames ==
    {k \in 1..Len(sink) : sink[k].msg = "unnecessary import rename to same name"}

StatementRedundant ==
    stmt.new_name # NoName /\ stmt.expr = "Ident" /\ stmt.ident = stmt.new_name

ItemRedundant(i) ==
    /\ stmt.imports.items[i].renamed
    /\ i \notin FailingItems
    /\ OriginalName(stmt.imports.items[i]) = stmt.imports.items[i].new_name

C14_RedundantRenameWarning ==
    ImportDone =>
        IF SourceAccepted
        THEN /\ Cardinality(WarningsAt(NewNameSpan)) = IF StatementRedundant THEN 1 ELSE 0
             /\ \A i \in 1..ItemCount :
                   Cardinality(WarningsAt(ItemNewNameSpan(i))) = IF ItemRedundant(i) THEN 1 ELSE 0
             /\ RedundantRenames =
                   WarningsAt(NewNameSpan) \cup UNION {WarningsAt(ItemNewNameSpan(i)) : i \in 1..ItemCount}
             /\ StatementRedundant =>
                   /\ Lookup(top, stmt.new_name) # {}
                   /\ Rebinders = {} /\ stmt.imports.kind # "wildcard" =>
                         Lookup(top, stmt.new_name) = {RenameBinding}
                   /\ result.ok <=> FailingItems = {}
             /\ \A i \in 1..ItemCount :
                   ItemRedundant(i) =>
                      /\ Lookup(top, BoundName(stmt.imports.items[i])) =
                            {ItemBinding(SourceModule.scope,
                                         stmt.imports.items[LastBinder(BoundName(stmt.imports.items[i]))])}
                      /\ result.ok <=> FailingItems = {}
        ELSE RedundantRenames = {}

\* `import m as m: f.x as x`: two warnings, both names bound, no failure.
C14_Witness ==
    /\ ImportDone
    /\ SourceAccepted
    /\ StatementRedundant
    /\ ItemCount = 1
    /\ ItemRedundant(1)
    /\ Cardinality(RedundantRenames) = 2
    /\ result.ok
    /\ Lookup(top, "m") = {RenameBinding}
    /\ Lookup(top, "x") # Lookup(before, "x")

(***************************************************************************)
(* C15: top-level source classification: the import source is accepted     *)
(* exactly when its value is text, an evaluated module, a type descriptor  *)
(* or a callable with a scope; a callable without a scope fails with       *)
(* 'cannot import from user-defined functions', every other variant with   *)
(* 'expected path, module, function, or type, found <type>', both at the   *)
(* source expression's span.  On either failure, and when a text path      *)
(* fails to load, the current scope is unchanged and the statement emits   *)
(* no warning of its own.                                                  *)
(***************************************************************************)
Classified(v) == v.k \in {"str", "module", "type"} \/ (v.k = "func" /\ v.has)

Unimportable == Error("cannot import from user-defined functions", source_span, "")

InvalidSource(v) == Error("expected path, module, function, or type", source_span, Ty(v))

\* The errors of the classification among the statement's errors.
ClassificationErrors ==
    {k \in 1..Len(result.errors) :
        /\ result.errors[k].span = source_span
        /\ result.errors[k].msg \in {Unimportable.msg, InvalidSource(stmt.value).msg}}

\* The warnings the statement itself emits.
StatementWarnings ==
    {k \in 1..Len(sink) :
        sink[k].msg \in {"unnecessary import rename to same name", "this import has no effect"}}

C15_SourceClassification ==
    ImportDone =>
        /\ Classified(stmt.value) <=> ClassificationErrors = {}
        /\ (stmt.value.k = "func" /\ ~stmt.value.has) => result.errors = <<Unimportable>>
        /\ (~Classified(stmt.value) /\ stmt.value.k # "func") =>
              result.errors = <<InvalidSource(stmt.value)>>
        /\ ~Classified(stmt.value) =>
              /\ ~result.ok
              /\ top = before
              /\ sink = <<>>
              /\ loads = <<>>
        /\ (stmt.value.k = "str" /\ ~Loaded.ok) =>
              /\ ~result.ok
              /\ result.errors = Loaded.errors
              /\ top = before
              /\ StatementWarnings = {}
              /\ sink = Loaded.warnings

\* `import m as m: *` with m a closure: rejected, the scope as before, no warning.
C15_Witness ==
    /\ ImportDone
    /\ stmt.value = ClosureV
    /\ stmt.expr = "Ident"
    /\ stmt.new_name = stmt.ident
    /\ stmt.imports.kind = "wildcard"
    /\ result.errors = <<Unimportable>>
    /\ before = LocalScope
    /\ top = before
    /\ sink = <<>>

(***************************************************************************)
(* C16: every file-load failure and every cyclic-import failure raised by  *)
(* import_file reaches the importing statement carrying an import trace    *)
(* breadcrumb for that import site, as the errors propagated out of the    *)
(* recursive evaluation do; in a multi-hop chain each enclosing import     *)
(* site adds its own.                                                      *)
(* import_file returns both failures (lines 199 and 203) before the trace  *)
(* of line 216 is applied, which covers the result of eval only.           *)
(***************************************************************************)
RaisedByImportFile(e) == e.msg \in {"file not found", "cyclic import"}

HasBreadcrumb(e, span) == \E j \in 1..Len(e.trace) : e.trace[j] = span

C16_LoadErrorsTraced ==
    \A f \in 1..Len(stack) :
        \A k \in 1..Len(stack[f].errors) :
            RaisedByImportFile(stack[f].errors[k]) =>
                HasBreadcrumb(stack[f].errors[k], stack[f].errors[k].span)

\* The file an import statement's span lies in, and the file that statement imports.
SpanFile(span) == Local(span.kind)

SiteTarget(span) == import_target(SpanFile(span), files[SpanFile(span)][span.i], span).id

\* The statement at which an evaluation failed.
FailedSite(frame) == StatementSpan(frame.id, frame.pc)

\* C16 as amended: a file-load or cyclic-import failure raised by import_file
\* reaches its own importing statement at that statement's span and without a
\* breadcrumb; only the errors that come out of the recursive evaluation get the
\* breadcrumb of the import site they come out of, so in a multi-hop chain an
\* error carries the sites of the enclosing imports, innermost first, and not the
\* site that raised it.
C16_BreadcrumbPerEnclosingSite ==
    \A f \in 1..Len(stack) :
        \A k \in 1..Len(stack[f].errors) :
            LET e == stack[f].errors[k]
            IN  /\ RaisedByImportFile(e) => ~HasBreadcrumb(e, e.span)
                /\ e.trace = <<>> <=> e.span = FailedSite(stack[f])
                /\ e.trace # <<>> =>
                      /\ e.trace[Len(e.trace)] = FailedSite(stack[f])
                      /\ SiteTarget(e.trace[1]) = SpanFile(e.span)
                      /\ \A j \in 1..(Len(e.trace) - 1) :
                            SiteTarget(e.trace[j + 1]) = SpanFile(e.trace[j])

\* main imports a, a imports b, b imports main: the cyclic import raised in b is
\* back in main with the breadcrumbs of a's and main's import sites.
C16_Witness ==
    /\ Len(stack) = 1
    /\ Top.status = "failed"
    /\ Len(Top.errors) = 1
    /\ Top.errors[1].msg = "cyclic import"
    /\ Top.errors[1].span.kind = "b"
    /\ Len(Top.errors[1].trace) = 2
    /\ Top.errors[1].trace[1].kind = "a"
    /\ Top.errors[1].trace[2] = FailedSite(Top)

(***************************************************************************)
(* C17: evaluation of imports always terminates: for every import graph    *)
(* (self-imports and longer cycles included) the evaluation of the root    *)
(* file eventually returns a module or a list of errors; every recursive   *)
(* entry adds an identity that is not on the route, so the nesting depth   *)
(* of the active evaluations never exceeds the number of distinct files.   *)
(* The chain is one synchronous thread of control: the step that is        *)
(* enabled is taken.                                                       *)
(***************************************************************************)
FairSpec == Spec /\ WF_vars(Next)

Returns ==
    /\ pc = "returned"
    /\ stack = <<>>
    /\ IF outcome.ok THEN outcome.module.k = "module" ELSE outcome.errors # <<>>

C17_Terminates ==
    /\ <>Returns
    /\ [](Len(stack) <= Cardinality(ChainFiles))
    /\ [][ Len(stack') > Len(stack) =>
              /\ Len(stack') = Len(stack) + 1
              /\ stack # <<>> =>
                    /\ \A k \in 1..Len(Top.route) : Top.route[k] # stack'[Len(stack')].id
                    /\ stack'[Len(stack')].route = Append(Top.route, stack'[Len(stack')].id) ]_vars

\* A graph in which main, a and b import one another in a cycle: the root
\* evaluation has returned, with the cyclic import as its error.
C17_Witness ==
    /\ Returns
    /\ files[MainId] = <<Path("a")>>
    /\ files[Local("a")] = <<Path("b")>>
    /\ files[Local("b")] = <<Path("main")>>
    /\ ~outcome.ok
    /\ outcome.errors[1].msg = "cyclic import"
    /\ execs[Local("b")] = 1

(***************************************************************************)
(* C18: import dispatch and package naming: import(text) takes the package *)
(* path exactly when the text begins with '@' and the file path otherwise; *)
(* a text beginning with '@' that is no valid package specifier fails      *)
(* without any request to the loader.  A successful package import returns *)
(* the entrypoint's module under the manifest's declared package name, a   *)
(* successful file import the module with the name the file's evaluation   *)
(* gave it.                                                                *)
(***************************************************************************)
TextDone == pc = "done" /\ stmt.value.k = "str"

IsPackageText(text) == Len(text) > 0 /\ text[1] = "@"

\* The module import returned, where the statement shows it: bound under the
\* statement's rename, or rendered by include.
ShownModules ==
    IF stmt.form = "include"
    THEN {[name |-> result.value.name, scope |-> result.value.scope]}
    ELSE {[name |-> b.value.name, scope |-> b.value.scope] : b \in Lookup(top, stmt.new_name)}

ShowsModule ==
    /\ result.ok
    /\ stmt.form = "include" \/ (stmt.new_name # NoName /\ stmt.imports.kind = "none")

C18_DispatchAndNaming ==
    TextDone =>
        IF IsPackageText(stmt.value.text)
        THEN IF ~ParsePackageSpec(stmt.value.text).ok
             THEN ~result.ok /\ loads = <<>>
             ELSE /\ loads \in { <<ManifestId(RequestedSpec)>>,
                                 <<ManifestId(RequestedSpec), Entrypoint(RequestedSpec)>> }
                  /\ result.ok => Len(loads) = 2
                  /\ ShowsModule =>
                        ShownModules = {[name |-> ManifestFile(RequestedSpec).name,
                                         scope |-> BodyScope(Entrypoint(RequestedSpec))]}
        ELSE /\ loads = <<ResolvePath(MainId, stmt.value.text)>>
             /\ ShowsModule =>
                   ShownModules = {[name |-> FileModule(ResolvePath(MainId, stmt.value.text)).name,
                                    scope |-> BodyScope(ResolvePath(MainId, stmt.value.text))]}

\* `import "@preview/example:0.1.0" as x`: x is the module of lib.typ, named example.
C18_Witness ==
    /\ TextDone
    /\ stmt.form = "import"
    /\ stmt.value.text = PackageText("preview", "example", "0.1.0")
    /\ ShowsModule
    /\ loads = <<ManifestId(RequestedSpec), Entrypoint(RequestedSpec)>>
    /\ \E b \in Lookup(top, "x") :
          b.value.name = "example" /\ b.value.name # FileModule(Entrypoint(RequestedSpec)).name

(***************************************************************************)
(* C19: a bare import (no rename, no item list) of a non-dynamic source    *)
(* that resolves binds exactly one name, the derived module name, to the   *)
(* source value with the source expression's span as its definition span;  *)
(* if the source expression is a bare identifier it also emits exactly one *)
(* 'this import has no effect' warning and still binds.  If the derived    *)
(* name would not be a valid identifier the statement fails with 'module   *)
(* name would not be a valid identifier' and binds nothing.                *)
(***************************************************************************)
\* A source that is no text, named by an identifier or a field access, or a string literal.
NonDynamicBare ==
    /\ ImportDone
    /\ SourceAccepted
    /\ stmt.imports.kind = "none"
    /\ stmt.new_name = NoName
    /\ \/ stmt.expr = "Str"
       \/ stmt.expr \in {"Ident", "FieldAccess"} /\ stmt.value.k # "str"

\* The name the source expression gives: the identifier, the field, the package's
\* name or the file's stem.
DerivedName ==
    IF stmt.expr # "Str"
    THEN stmt.ident
    ELSE IF IsPackageText(stmt.value.text)
    THEN RequestedSpec[2]
    ELSE stmt.value.text[1]

NoEffectWarnings ==
    {k \in 1..Len(sink) : sink[k] = Warning("this import has no effect", source_span)}

C19_BareImport ==
    NonDynamicBare =>
        IF DerivedName \in Idents
        THEN /\ result.ok
             /\ Lookup(top, DerivedName) = {Binding(SourceModule, source_span)}
             /\ \A n \in (ScopeNames(top) \cup ScopeNames(before)) \ {DerivedName} :
                   Lookup(top, n) = Lookup(before, n)
             /\ Cardinality(NoEffectWarnings) = IF stmt.expr = "Ident" THEN 1 ELSE 0
             /\ StatementWarnings = NoEffectWarnings
        ELSE /\ ~result.ok
             /\ result.errors =
                   <<Error("module name would not be a valid identifier", source_span, "")>>
             /\ top = before
             /\ StatementWarnings = {}

\* `import m` with m a module: one warning, and m is bound to the module at the
\* span of the source expression.
C19_Witness ==
    /\ NonDynamicBare
    /\ stmt.expr = "Ident"
    /\ stmt.value.k = "module"
    /\ before = LocalScope
    /\ Len(top) = Len(before) + 1
    /\ Lookup(top, "m") = {Binding(stmt.value, source_span)}
    /\ Cardinality(NoEffectWarnings) = 1

====
